---- MODULE Spec2Model ----
(***************************************************************************)
(* Model of the mysqldump package (src/dump.go):                           *)
(*   - SpecDump  : Dump / writeTableStruct / writeTableData on the         *)
(*                 orchestrating thread and one writeViaBuf goroutine per  *)
(*                 table, sharing one SafeWriter;                          *)
(*   - SpecSource: Source, the statement replayer, with mergeInsert;       *)
(*   - SpecMerge : mergeInsert as a pure function of its input slice.      *)
(* Text is a sequence of one-character strings wherever the code inspects  *)
(* it (trim, HasPrefix, Index, TrimSuffix); in SpecDump one statement is   *)
(* one unit of text.                                                       *)
(***************************************************************************)
EXTENDS Integers, Sequences, FiniteSets, TLC

VARIABLES
    \* ---- Dump ----
    opt,        \* dumpOption: isDropTable, isDumpTable, isData
    ntab,       \* len(tables), the number of tables Dump iterates over
    pc,         \* position of the thread running Dump
    tbl,        \* index of the table in the loop over tables
    pw,         \* the SafeWriter call the Dump thread is inside of
    dml,        \* dml of writeTableData, the statement built for the current row
    fetched,    \* per table: rows lineRows.Next() has delivered
    writeCh,    \* per table: writeCh, a channel of capacity 1
    doneCh,     \* per table: number of signals in done, a channel of capacity 1
    cpc,        \* per table: position of its writeViaBuf goroutine
    cdata,      \* per table: data of writeViaBuf
    torn,       \* SafeWriter calls of two threads have overlapped: buf and dest are undetermined
    sink,       \* the SafeWriter: buf (buffered text), dest (text the io.Writer got)
    ret,        \* what Dump returned
    wtd,        \* per table: what writeTableData returned
    sentLog,    \* per table: statements sent on writeCh, in order
    written,    \* per table: statements writeViaBuf passed to WriteString, in order
    \* ---- Source ----
    sopt,       \* sourceOption: dryRun, mergeInsert
    spc,        \* position in Source
    input,      \* the statements the reader was built from (never changes)
    reader,     \* what is left to read of the io.Reader
    rdEnd,      \* what the reader returns at its end: "EOF" or another error
    nread,      \* statements read so far, each ended by a semicolon
    sfirst,     \* index in the stream of the first statement dml was made of
    sdml,       \* dml of Source, the statement to execute next
    sbatch,     \* the statements dml was made of (insertSQLs when it was merged)
    issued,     \* the calls of dbWrapper.Exec, in order
    dbLog,      \* the statements the database executed
    sret,       \* what Source returned
    \* ---- mergeInsert alone ----
    mpc,        \* "call" before the call, "done" after
    mrows,      \* the rows the input statements were built from (never changes)
    minput,     \* insertSQLs
    mout,       \* the result: out, err
    \* ---- one row of writeTableData alone ----
    rpc,        \* "build" before the row is rendered, "done" after
    withoutPrimaryID,   \* the option WithoutPrimaryID
    row,        \* the columns of the row after Scan: name, type, value
    rout,       \* what became of the row: the statement, and how the loop body left
    \* ---- SafeWriter alone ----
    wpc,        \* "write" while texts are left, then "flush", then "done"
    wtexts,     \* the texts to write, in call order (never changes)
    wn,         \* calls of WriteString that have returned
    sw          \* the SafeWriter: buf, dest, size

dumpVars == <<opt, ntab, pc, tbl, pw, dml, fetched, writeCh, doneCh, cpc, cdata, torn,
              sink, ret, wtd, sentLog, written>>

srcVars == <<sopt, spc, input, reader, rdEnd, nread, sfirst, sdml, sbatch, issued, dbLog, sret>>

mergeVars == <<mpc, mrows, minput, mout>>

rowVars == <<rpc, withoutPrimaryID, row, rout>>

swVars == <<wpc, wtexts, wn, sw>>

pureVars == <<mergeVars, rowVars, swVars>>

vars == <<dumpVars, srcVars, pureVars>>

(***************************************************************************)
(* Bounds                                                                  *)
(***************************************************************************)
NumTables == 2      \* tables of the dumped database
MaxRows == 2        \* rows the SELECT of a table delivers at most
MaxStmts == 3       \* statements of the stream Source reads
MaxMerge == 3       \* the largest merge size given to WithMergeInsert
MaxInputs == 3      \* statements given to mergeInsert

Tables == 1..NumTables

(***************************************************************************)
(* SafeWriter (a bufio.Writer of fixed size) over text as a sequence       *)
(***************************************************************************)
BufferSize == 1048576

NewSafeWriterWithSize(size) == [buf |-> <<>>, dest |-> <<>>, size |-> size]

Available(w) == w.size - Len(w.buf)

Flush(w) == [w EXCEPT !.dest = @ \o w.buf, !.buf = <<>>]

Take(s, n) == SubSeq(s, 1, n)
Drop(s, n) == SubSeq(s, n + 1, Len(s))

\* bufio.Writer.WriteString: while the text does not fit, fill the buffer and flush
RECURSIVE BufioWriteString(_, _)
BufioWriteString(w, s) ==
    IF Len(s) > Available(w)
    THEN BufioWriteString(Flush([w EXCEPT !.buf = @ \o Take(s, Available(w))]),
                          Drop(s, Available(w)))
    ELSE [w EXCEPT !.buf = @ \o s]

WriteStringNoFlush(w, s) == BufioWriteString(w, s)
WriteString(w, s) ==
    IF Available(w) < Len(s) THEN BufioWriteString(Flush(w), s)
    ELSE BufioWriteString(w, s)

(***************************************************************************)
(* Text: a Go string is a sequence of one-character strings                *)
(***************************************************************************)
\* the grave accent (0x60) around a table name: the character cannot be written
\* inside a string of this language, so its one-character string has a name
BQ == "[grave]"

HasPrefix(s, p) == Len(s) >= Len(p) /\ SubSeq(s, 1, Len(p)) = p
HasSuffix(s, p) == Len(s) >= Len(p) /\ SubSeq(s, Len(s) - Len(p) + 1, Len(s)) = p
TrimPrefix(s, p) == IF HasPrefix(s, p) THEN Drop(s, Len(p)) ELSE s
TrimSuffix(s, p) == IF HasSuffix(s, p) THEN Take(s, Len(s) - Len(p)) ELSE s

\* strings.Index: the offset (from 0) of the first occurrence of sub in s, or -1
Index(s, sub) ==
    LET hits == {i \in 0..(Len(s) - Len(sub)) : SubSeq(s, i + 1, i + Len(sub)) = sub}
    IN  IF hits = {} THEN -1 ELSE CHOOSE i \in hits : \A j \in hits : i <= j

\* strings.TrimLeft(s, cutset)
RECURSIVE TrimLeft(_, _)
TrimLeft(s, cutset) ==
    IF s # <<>> /\ Head(s) \in cutset THEN TrimLeft(Tail(s), cutset) ELSE s

RECURSIVE TrimRight(_, _)
TrimRight(s, cutset) ==
    IF s # <<>> /\ s[Len(s)] \in cutset THEN TrimRight(Take(s, Len(s) - 1), cutset) ELSE s

WhiteSpace == {" ", "\t", "\n", "\r"}

\* strings.TrimSpace
TrimSpace(s) == TrimRight(TrimLeft(s, WhiteSpace), WhiteSpace)

\* trim, lines 728-732
trimNothing(s) == s
trim(s) == TrimSpace(TrimLeft(s, {"\n"}))

\* the prefix Source tests for, lines 639 and 657
InsertIntoPrefix ==
    <<"I", "N", "S", "E", "R", "T", " ", "I", "N", "T", "O">>

\* the keyword mergeInsert looks for, lines 713 and 718
ValuesKeyword ==
    <<"V", "A", "L", "U", "E", "S">>

Semicolon ==
    <<";">>

Comma ==
    <<",">>


(***************************************************************************)
(* mergeInsert, lines 700-726                                              *)
(***************************************************************************)
NoText == <<>>

\* if i < len(insertSQLs)-1, line 709, i being the index in insertSQLs[1:]
WritesCommaExceptLast(i, n) == i < n - 2
WritesComma(i, n) == i < n - 1

\* the loop body, lines 708-722, from the element at index i of insertSQLs[1:] on
RECURSIVE MergeRest(_, _, _)
MergeRest(insertSQLs, i, builder) ==
    IF i >= Len(insertSQLs) - 1
    THEN [out |-> builder \o Semicolon, err |-> "nil"]
    ELSE LET insertSQL == insertSQLs[i + 2]
             b1 == IF WritesComma(i, Len(insertSQLs)) THEN builder \o Comma ELSE builder
             valuesIdx == Index(insertSQL, ValuesKeyword)
         IN  IF valuesIdx = -1
             THEN [out |-> NoText, err |-> "invalid SQL: missing VALUES keyword"]
             ELSE MergeRest(insertSQLs, i + 1,
                      b1 \o TrimSuffix(TrimPrefix(Drop(insertSQL, valuesIdx),
                                                  ValuesKeyword), Semicolon))

mergeInsert(insertSQLs) ==
    IF Len(insertSQLs) = 0
    THEN [out |-> NoText, err |-> "no input provided"]
    ELSE MergeRest(insertSQLs, 0, TrimSuffix(insertSQLs[1], Semicolon))

(***************************************************************************)
(* Dump: text units, channels and the SafeWriter calls of the threads     *)
(***************************************************************************)
Tok(k, t, r) == [k |-> k, t |-> t, r |-> r]
NoTok == Tok("none", 0, 0)

\* dml = "INSERT INTO " + table + " VALUES (" ... ");\n" for the row fetched r-th
InsertStmtStale(t, r) == Tok("INSERT", t, IF r > 1 THEN r - 1 ELSE r)
InsertStmt(t, r) == Tok("INSERT", t, r)

WriteChCap == 1
DoneCap == 1

CanSend(ch) == Len(ch) < WriteChCap
ChanSend(ch, v) == Append(ch, v)
ChanRecv(ch) == Head(ch)
ChanRest(ch) == Tail(ch)

Orch == 0
Threads == {Orch} \cup Tables

NoOp == [op |-> "none", tok |-> NoTok, next |-> "none"]

\* thread th is inside WriteString or Flush of the shared SafeWriter
Inside(th) == IF th = Orch THEN pw.op # "none" ELSE cpc[th] \in {"write", "flush"}

\* Thread th enters a SafeWriter call.  The SafeWriter has no lock: when another
\* thread is inside a call, the two access buf and n unsynchronised, and what the
\* buffer and the destination hold from then on is not determined (text may be
\* lost, damaged or flushed twice).  The model keeps the sequential effect in
\* sink and records in torn that it is only one of the possible outcomes.
EnterSink(th) == torn' = (torn \/ \E y \in Threads \ {th} : Inside(y))

\* what Source has returned: an error, nil (line 691), or nothing yet
StillRunning == [kind |-> "running", at |-> 0]
ReturnedNil == [kind |-> "nil", at |-> 0]

\* the variables of another specification, at rest
SourceIdle ==
    /\ sopt = [dryRun |-> FALSE, mergeInsert |-> 0]
    /\ spc = "idle"
    /\ input = <<>>
    /\ reader = <<>>
    /\ rdEnd = "EOF"
    /\ nread = 0
    /\ sfirst = 0
    /\ sdml = <<>>
    /\ sbatch = <<>>
    /\ issued = <<>>
    /\ dbLog = <<>>
    /\ sret = StillRunning

MergeIdle ==
    /\ mpc = "idle"
    /\ mrows = <<>>
    /\ minput = <<>>
    /\ mout = [out |-> <<>>, err |-> "none"]

NoRowOut == [dml |-> <<>>, left |-> "none", err |-> <<>>]

RowIdle ==
    /\ rpc = "idle"
    /\ withoutPrimaryID = FALSE
    /\ row = <<>>
    /\ rout = NoRowOut

WriterIdle ==
    /\ wpc = "idle"
    /\ wtexts = <<>>
    /\ wn = 0
    /\ sw = NewSafeWriterWithSize(BufferSize)

DumpIdle ==
    /\ opt = [isDropTable |-> FALSE, isDumpTable |-> FALSE, isData |-> FALSE]
    /\ ntab = 0
    /\ pc = "idle"
    /\ tbl = 1
    /\ pw = NoOp
    /\ dml = NoTok
    /\ fetched = [t \in Tables |-> 0]
    /\ writeCh = [t \in Tables |-> <<>>]
    /\ doneCh = [t \in Tables |-> 0]
    /\ cpc = [t \in Tables |-> "none"]
    /\ cdata = [t \in Tables |-> NoTok]
    /\ torn = FALSE
    /\ sink = NewSafeWriterWithSize(BufferSize)
    /\ ret = "running"
    /\ wtd = [t \in Tables |-> "none"]
    /\ sentLog = [t \in Tables |-> <<>>]
    /\ written = [t \in Tables |-> <<>>]

InitTables(n) ==
    /\ SourceIdle
    /\ MergeIdle
    /\ RowIdle
    /\ WriterIdle
    /\ opt \in [isDropTable : BOOLEAN, isDumpTable : BOOLEAN, isData : BOOLEAN]
    /\ ntab = n
    /\ pc = "hdr"
    /\ tbl = 1
    /\ pw = NoOp
    /\ dml = NoTok
    /\ fetched = [t \in Tables |-> 0]
    /\ writeCh = [t \in Tables |-> <<>>]
    /\ doneCh = [t \in Tables |-> 0]
    /\ cpc = [t \in Tables |-> "none"]
    /\ cdata = [t \in Tables |-> NoTok]
    /\ torn = FALSE
    /\ sink = NewSafeWriterWithSize(BufferSize)
    /\ ret = "running"
    /\ wtd = [t \in Tables |-> "none"]
    /\ sentLog = [t \in Tables |-> <<>>]
    /\ written = [t \in Tables |-> <<>>]

\* the Dump thread calls buf.WriteString(tok) (op "write") or buf.Flush() (op "flush")
OrchBegin(op, tok, next) ==
    /\ pw' = [op |-> op, tok |-> tok, next |-> next]
    /\ pc' = "sink"
    /\ EnterSink(Orch)

\* return err in Dump: the deferred buf.Flush() (lines 169-171) is entered
DumpReturn(e) ==
    /\ ret' = e
    /\ OrchBegin("flush", NoTok, "end")

\* where the body of the table loop goes on, by the options (Dump, lines 227, 232, 241)
DataEntry == IF opt.isData THEN "data" ELSE "next"
StructEntry == IF opt.isDumpTable THEN "struct" ELSE DataEntry
TableEntry == IF opt.isDropTable THEN "drop" ELSE StructEntry

\* the SafeWriter call of the Dump thread returns
OrchSinkDone ==
    /\ pc = "sink"
    /\ sink' = (IF pw.op = "write" THEN WriteString(sink, <<pw.tok>>) ELSE Flush(sink))
    /\ pc' = pw.next
    /\ pw' = NoOp
    /\ UNCHANGED <<srcVars, pureVars, opt, ntab, tbl, dml, fetched, writeCh, doneCh, cpc, cdata, torn, ret, wtd,
                   sentLog, written>>

\* Dump, lines 174-178: the header
DumpHeader ==
    /\ pc = "hdr"
    /\ OrchBegin("write", Tok("HEADER", 0, 0), "open")
    /\ UNCHANGED <<srcVars, pureVars, opt, ntab, tbl, dml, fetched, writeCh, doneCh, cpc, cdata, sink, ret, wtd,
                   sentLog, written>>

\* Dump, lines 181-222: sql.Open, getDBs, USE and getAllTables succeed; "USE db;\n"
DumpUse ==
    /\ pc = "open"
    /\ OrchBegin("write", Tok("USE", 0, 0), TableEntry)
    /\ UNCHANGED <<srcVars, pureVars, opt, ntab, tbl, dml, fetched, writeCh, doneCh, cpc, cdata, sink, ret, wtd,
                   sentLog, written>>

\* Dump, lines 181-220: one of them fails
DumpOpenFail ==
    /\ pc = "open"
    /\ DumpReturn("connErr")
    /\ UNCHANGED <<srcVars, pureVars, opt, ntab, tbl, dml, fetched, writeCh, doneCh, cpc, cdata, sink, wtd,
                   sentLog, written>>

\* Dump, lines 227-229
DumpDropTable ==
    /\ pc = "drop"
    /\ OrchBegin("write", Tok("DROP", tbl, 0), StructEntry)
    /\ UNCHANGED <<srcVars, pureVars, opt, ntab, tbl, dml, fetched, writeCh, doneCh, cpc, cdata, sink, ret, wtd,
                   sentLog, written>>

\* Dump, line 233, and writeTableStruct, lines 318-320
WriteTableStructHeader ==
    /\ pc = "struct"
    /\ OrchBegin("write", Tok("STRUCT_HDR", tbl, 0), "create")
    /\ UNCHANGED <<srcVars, pureVars, opt, ntab, tbl, dml, fetched, writeCh, doneCh, cpc, cdata, sink, ret, wtd,
                   sentLog, written>>

\* writeTableStruct, lines 322-332: getCreateTableSQL succeeds
WriteTableStructCreate ==
    /\ pc = "create"
    /\ OrchBegin("write", Tok("CREATE", tbl, 0), DataEntry)
    /\ UNCHANGED <<srcVars, pureVars, opt, ntab, tbl, dml, fetched, writeCh, doneCh, cpc, cdata, sink, ret, wtd,
                   sentLog, written>>

\* writeTableStruct, lines 322-326, and Dump, lines 234-237: getCreateTableSQL fails
WriteTableStructFail ==
    /\ pc = "create"
    /\ DumpReturn("queryErr")
    /\ UNCHANGED <<srcVars, pureVars, opt, ntab, tbl, dml, fetched, writeCh, doneCh, cpc, cdata, sink, wtd,
                   sentLog, written>>

\* Dump, line 244, and writeTableData, lines 336-344
WriteTableDataHeader ==
    /\ pc = "data"
    /\ OrchBegin("write", Tok("RECORDS_HDR", tbl, 0), "query")
    /\ wtd' = [wtd EXCEPT ![tbl] = "running"]
    /\ UNCHANGED <<srcVars, pureVars, opt, ntab, tbl, dml, fetched, writeCh, doneCh, cpc, cdata, sink, ret,
                   sentLog, written>>

\* writeTableData, lines 346-373: the query succeeds; go writeViaBuf(buf, writeCh, done)
WriteTableDataQuery ==
    /\ pc = "query"
    /\ cpc' = [cpc EXCEPT ![tbl] = "select"]
    /\ pc' = "fetch"
    /\ UNCHANGED <<srcVars, pureVars, opt, ntab, tbl, pw, dml, fetched, writeCh, doneCh, cdata, torn, sink, ret,
                   wtd, sentLog, written>>

\* writeTableData, lines 353-371, and Dump, lines 245-248: Query, Columns or
\* ColumnTypes fails, before the goroutine is started
WriteTableDataQueryFail ==
    /\ pc = "query"
    /\ wtd' = [wtd EXCEPT ![tbl] = "queryErr"]
    /\ DumpReturn("queryErr")
    /\ UNCHANGED <<srcVars, pureVars, opt, ntab, tbl, dml, fetched, writeCh, doneCh, cpc, cdata, sink,
                   sentLog, written>>

\* writeTableData, lines 379-483: lineRows.Next() delivers a row, Scan succeeds,
\* every column renders, and writeCh <- dml, which waits while the channel is full
SendRow ==
    /\ pc = "fetch"
    /\ fetched[tbl] < MaxRows
    /\ CanSend(writeCh[tbl])
    /\ fetched' = [fetched EXCEPT ![tbl] = @ + 1]
    /\ dml' = InsertStmt(tbl, fetched[tbl] + 1)
    /\ writeCh' = [writeCh EXCEPT ![tbl] = ChanSend(@, dml')]
    /\ sentLog' = [sentLog EXCEPT ![tbl] = Append(@, dml')]
    /\ UNCHANGED <<srcVars, pureVars, opt, ntab, pc, tbl, pw, doneCh, cpc, cdata, torn, sink, ret, wtd, written>>

\* writeTableData, lines 385-389 and 471-474, and Dump, lines 245-248: Scan fails,
\* or the type of a column is not supported: return a non-nil error
FetchRowFail ==
    /\ pc = "fetch"
    /\ fetched[tbl] < MaxRows
    /\ fetched' = [fetched EXCEPT ![tbl] = @ + 1]
    /\ \E e \in {"scanErr", "unsupported"} :
          /\ wtd' = [wtd EXCEPT ![tbl] = e]
          /\ DumpReturn(e)
    /\ UNCHANGED <<srcVars, pureVars, opt, ntab, tbl, dml, writeCh, doneCh, cpc, cdata, sink, sentLog, written>>

\* writeTableData, lines 422-456: a DATE/DATETIME/TIMESTAMP/TIME/YEAR value of another
\* runtime type: return err with err == nil (set by the Scan that succeeded);
\* Dump, line 245, sees no error and goes on with the next table
FetchRowBadTime ==
    /\ pc = "fetch"
    /\ fetched[tbl] < MaxRows
    /\ fetched' = [fetched EXCEPT ![tbl] = @ + 1]
    /\ wtd' = [wtd EXCEPT ![tbl] = "nil"]
    /\ pc' = "next"
    /\ UNCHANGED <<srcVars, pureVars, opt, ntab, tbl, pw, dml, writeCh, doneCh, cpc, cdata, torn, sink, ret,
                   sentLog, written>>

\* writeTableData, lines 379 and 486: lineRows.Next() is false; buf.WriteString("\n\n")
\* on the Dump thread
WriteTableDataTrailer ==
    /\ pc = "fetch"
    /\ OrchBegin("write", Tok("NEWLINES", tbl, 0), "done")
    /\ UNCHANGED <<srcVars, pureVars, opt, ntab, tbl, dml, fetched, writeCh, doneCh, cpc, cdata, sink, ret, wtd,
                   sentLog, written>>

\* writeTableData, lines 488-490: done <- struct{}{} into the buffered channel, then
\* return nil
SendDone ==
    /\ pc = "done"
    /\ doneCh[tbl] < DoneCap
    /\ doneCh' = [doneCh EXCEPT ![tbl] = @ + 1]
    /\ wtd' = [wtd EXCEPT ![tbl] = "nil"]
    /\ pc' = "next"
    /\ UNCHANGED <<srcVars, pureVars, opt, ntab, tbl, pw, dml, fetched, writeCh, cpc, cdata, torn, sink, ret,
                   sentLog, written>>

\* Dump, line 225: the next table
DumpNextTable ==
    /\ pc = "next"
    /\ tbl < ntab
    /\ tbl' = tbl + 1
    /\ pc' = TableEntry
    /\ UNCHANGED <<srcVars, pureVars, opt, ntab, pw, dml, fetched, writeCh, doneCh, cpc, cdata, torn, sink, ret,
                   wtd, sentLog, written>>

\* Dump, lines 254-257: the footer, after the last table
DumpFooter ==
    /\ pc = "next"
    /\ tbl = ntab
    /\ OrchBegin("write", Tok("FOOTER", 0, 0), "flush")
    /\ UNCHANGED <<srcVars, pureVars, opt, ntab, tbl, dml, fetched, writeCh, doneCh, cpc, cdata, sink, ret, wtd,
                   sentLog, written>>

\* Dump, line 258
DumpFlush ==
    /\ pc = "flush"
    /\ OrchBegin("flush", NoTok, "return")
    /\ UNCHANGED <<srcVars, pureVars, opt, ntab, tbl, dml, fetched, writeCh, doneCh, cpc, cdata, sink, ret, wtd,
                   sentLog, written>>

\* Dump, line 260: return nil
DumpReturnNil ==
    /\ pc = "return"
    /\ DumpReturn("nil")
    /\ UNCHANGED <<srcVars, pureVars, opt, ntab, tbl, dml, fetched, writeCh, doneCh, cpc, cdata, sink, wtd,
                   sentLog, written>>

\* writeViaBuf, lines 495-497: the select takes data from writeCh and calls WriteString
ConsumerRecvData(t) ==
    /\ cpc[t] = "select"
    /\ writeCh[t] # <<>>
    /\ cdata' = [cdata EXCEPT ![t] = ChanRecv(writeCh[t])]
    /\ writeCh' = [writeCh EXCEPT ![t] = ChanRest(@)]
    /\ cpc' = [cpc EXCEPT ![t] = "write"]
    /\ EnterSink(t)
    /\ UNCHANGED <<srcVars, pureVars, opt, ntab, pc, tbl, pw, dml, fetched, doneCh, sink, ret, wtd, sentLog,
                   written>>

\* writeViaBuf, line 497: writer.WriteString(data) returns
ConsumerWriteDone(t) ==
    /\ cpc[t] = "write"
    /\ sink' = WriteString(sink, <<cdata[t]>>)
    /\ written' = [written EXCEPT ![t] = Append(@, cdata[t])]
    /\ cpc' = [cpc EXCEPT ![t] = "select"]
    /\ UNCHANGED <<srcVars, pureVars, opt, ntab, pc, tbl, pw, dml, fetched, writeCh, doneCh, cdata, torn, ret,
                   wtd, sentLog>>

\* writeViaBuf, lines 498-499: the select takes the stop signal and calls Flush
ConsumerRecvDone(t) ==
    /\ cpc[t] = "select"
    /\ doneCh[t] > 0
    /\ doneCh' = [doneCh EXCEPT ![t] = @ - 1]
    /\ cpc' = [cpc EXCEPT ![t] = "flush"]
    /\ EnterSink(t)
    /\ UNCHANGED <<srcVars, pureVars, opt, ntab, pc, tbl, pw, dml, fetched, writeCh, cdata, sink, ret, wtd,
                   sentLog, written>>

\* writeViaBuf, lines 499-500: writer.Flush() returns; return
ConsumerFlushDone(t) ==
    /\ cpc[t] = "flush"
    /\ sink' = Flush(sink)
    /\ cpc' = [cpc EXCEPT ![t] = "exit"]
    /\ UNCHANGED <<srcVars, pureVars, opt, ntab, pc, tbl, pw, dml, fetched, writeCh, doneCh, cdata, torn, ret,
                   wtd, sentLog, written>>

\* Dump of a database of one table
NextTable ==
    \/ OrchSinkDone
    \/ DumpHeader
    \/ DumpUse
    \/ DumpOpenFail
    \/ DumpDropTable
    \/ WriteTableStructHeader
    \/ WriteTableStructCreate
    \/ WriteTableStructFail
    \/ WriteTableDataHeader
    \/ WriteTableDataQuery
    \/ WriteTableDataQueryFail
    \/ SendRow
    \/ FetchRowFail
    \/ FetchRowBadTime
    \/ WriteTableDataTrailer
    \/ SendDone
    \/ DumpFooter
    \/ DumpFlush
    \/ DumpReturnNil
    \/ \E t \in Tables : ConsumerRecvData(t)
    \/ \E t \in Tables : ConsumerWriteDone(t)
    \/ \E t \in Tables : ConsumerRecvDone(t)
    \/ \E t \in Tables : ConsumerFlushDone(t)

\* Dump of a database of NumTables tables
NextDump ==
    \/ NextTable
    \/ DumpNextTable

InitDump == InitTables(NumTables)
InitTable == InitTables(1)

SpecDump == InitDump /\ [][NextDump]_vars
SpecTable == InitTable /\ [][NextTable]_vars

\* the Go scheduler: a goroutine that can take a step takes it in the end
FairScheduling ==
    /\ WF_vars(NextTable)
    /\ \A t \in Tables :
          /\ WF_vars(ConsumerRecvData(t) \/ ConsumerRecvDone(t))
          /\ WF_vars(ConsumerWriteDone(t))
          /\ WF_vars(ConsumerFlushDone(t))

SpecTableFair == SpecTable /\ FairScheduling

(***************************************************************************)
(* Source, lines 570-692                                                   *)
(***************************************************************************)
\* fmt.Sprintf("USE %s;", dbName), line 604
UseStmt ==
    <<"U", "S", "E", " ", "d", "b", ";">>

\* line 614
AutocommitOffStmt ==
    <<"S", "E", "T", " ", "a", "u", "t", "o", "c", "o", "m", "m", "i", "t", "=", "0", ";">>

CommitStmtRollback ==
    <<"R", "O", "L", "L", "B", "A", "C", "K", ";">>

\* line 679
CommitStmt ==
    <<"C", "O", "M", "M", "I", "T", ";">>

\* line 685
AutocommitOnStmt ==
    <<"S", "E", "T", " ", "a", "u", "t", "o", "c", "o", "m", "m", "i", "t", "=", "1", ";">>

\* statements of the streams Source is given
StmtInsert1 ==
    <<"I", "N", "S", "E", "R", "T", " ", "I", "N", "T", "O", " ", BQ, "t", BQ, " ", "V",
      "A", "L", "U", "E", "S", " ", "(", "1", ",", "'", "x", "'", ")", ";">>

StmtInsert2 ==
    <<"\n", "I", "N", "S", "E", "R", "T", " ", "I", "N", "T", "O", " ", BQ, "t", BQ, " ",
      "V", "A", "L", "U", "E", "S", " ", "(", "2", ",", "'", "y", "'", ")", ";">>

StmtInsertOther ==
    <<"\n", "I", "N", "S", "E", "R", "T", " ", "I", "N", "T", "O", " ", BQ, "u", BQ, " ",
      "V", "A", "L", "U", "E", "S", " ", "(", "3", ")", ";">>

StmtDrop ==
    <<"\n", "D", "R", "O", "P", " ", "T", "A", "B", "L", "E", " ", BQ, "t", BQ, ";">>

\* the first INSERT of a table as Dump writes it, after the comment lines of line 342-344
StmtCommentInsert ==
    <<"\n", "-", "-", " ", "r", "\n", "I", "N", "S", "E", "R", "T", " ", "I", "N", "T",
      "O", " ", BQ, "u", BQ, " ", "V", "A", "L", "U", "E", "S", " ", "(", "5", ")", ";">>

StmtInsertSet ==
    <<"\n", "I", "N", "S", "E", "R", "T", " ", "I", "N", "T", "O", " ", BQ, "t", BQ, " ",
      "S", "E", "T", " ", "a", "=", "6", ";">>

\* text after the last semicolon, as the footer Dump writes
TrailingText ==
    <<"\n", "-", "-", " ", "e", "n", "d", "\n">>

SrcPool == {StmtInsert1, StmtInsert2, StmtInsertOther, StmtDrop, StmtCommentInsert,
            StmtInsertSet}

SeqsUpTo(S, n) == UNION {[1..k -> S] : k \in 0..n}

RECURSIVE Concat(_)
Concat(ss) == IF ss = <<>> THEN <<>> ELSE Head(ss) \o Concat(Tail(ss))

\* bufio.Reader.ReadString: the text up to and including the first semicolon, or
\* what is left together with the final error of the reader
ReadString(r, end) ==
    LET i == Index(r, Semicolon)
    IN  IF i = -1 THEN [line |-> r, rest |-> <<>>, err |-> end]
        ELSE [line |-> Take(r, i + 1), rest |-> Drop(r, i + 1), err |-> "nil"]

\* i < o.mergeInsert-1, line 642
MoreToMergeOffByOne(i, n) == i < n
MoreToMerge(i, n) == i < n - 1

\* the loop of lines 642-663: insertSQLs grows while the next statement read
\* begins with INSERT INTO; a statement that does not is read and left out
RECURSIVE ReadBatch(_, _, _, _, _)
ReadBatch(r, end, insertSQLs, i, n) ==
    IF ~MoreToMerge(i, n)
    THEN [rest |-> r, insertSQLs |-> insertSQLs, err |-> "nil", reads |-> i]
    ELSE LET rd == ReadString(r, end)
             d == trim(rd.line)
         IN  IF rd.err = "EOF"
             THEN [rest |-> rd.rest, insertSQLs |-> insertSQLs, err |-> "nil",
                   reads |-> i]
             ELSE IF rd.err # "nil"
             THEN [rest |-> rd.rest, insertSQLs |-> insertSQLs, err |-> rd.err,
                   reads |-> i]
             ELSE IF HasPrefix(d, InsertIntoPrefix)
             THEN ReadBatch(rd.rest, end, Append(insertSQLs, d), i + 1, n)
             ELSE [rest |-> rd.rest, insertSQLs |-> insertSQLs, err |-> "nil",
                   reads |-> i + 1]

Call(origin, text, ok, members, first, merged) ==
    [origin |-> origin, text |-> text, ok |-> ok, members |-> members,
     first |-> first, merged |-> merged]

\* the error of the n-th call of dbWrapper.Exec
ExecErr(n) == [kind |-> "exec", at |-> n]

\* if err != nil { return err } after a call of dbWrapper.Exec
AfterExecIgnoringErr(ok, next, e) == [pc |-> next, ret |-> StillRunning]
AfterExec(ok, next, e) ==
    IF ok THEN [pc |-> next, ret |-> StillRunning] ELSE [pc |-> "done", ret |-> e]

\* if db.dryRun { return nil, nil }, lines 563-565: the statement reaches the
\* database when the run is not a dry run (and changes it when it succeeds)
ExecutesInDryRun(dryRun, ok) == ok
Executes(dryRun, ok) == ~dryRun /\ ok

\* dbWrapper.Exec, lines 558-567, and the error check of the caller: a dry run executes
\* nothing and returns nil
Exec(call, next) ==
    \E ok \in (IF sopt.dryRun THEN {TRUE} ELSE BOOLEAN) :
        LET after == AfterExec(ok, next, ExecErr(Len(issued) + 1))
        IN  /\ issued' = Append(issued, [call EXCEPT !.ok = ok])
            /\ dbLog' = IF Executes(sopt.dryRun, ok) THEN Append(dbLog, call.text) ELSE dbLog
            /\ spc' = after.pc
            /\ sret' = after.ret

Session(text) == Call("session", text, TRUE, <<>>, 0, FALSE)

InitSource ==
    /\ DumpIdle
    /\ MergeIdle
    /\ RowIdle
    /\ WriterIdle
    /\ sopt \in [dryRun : BOOLEAN, mergeInsert : 0..MaxMerge]
    /\ spc = "open"
    /\ input \in SeqsUpTo(SrcPool, MaxStmts)
    /\ \E e \in {<<<<>>, "EOF">>, <<TrailingText, "EOF">>, <<<<>>, "unexpected EOF">>} :
          /\ reader = Concat(input) \o e[1]
          /\ rdEnd = e[2]
    /\ nread = 0
    /\ sfirst = 0
    /\ sdml = <<>>
    /\ sbatch = <<>>
    /\ issued = <<>>
    /\ dbLog = <<>>
    /\ sret = StillRunning

\* lines 587-600: GetDBNameFromDNS and sql.Open succeed
SourceOpen ==
    /\ spc = "open"
    /\ spc' = "use"
    /\ UNCHANGED <<dumpVars, pureVars, sopt, input, reader, rdEnd, nread, sfirst, sdml, sbatch,
                   issued, dbLog, sret>>

\* lines 587-597: one of them fails
SourceOpenFail ==
    /\ spc = "open"
    /\ spc' = "done"
    /\ sret' = [kind |-> "open", at |-> 0]
    /\ UNCHANGED <<dumpVars, pureVars, sopt, input, reader, rdEnd, nread, sfirst, sdml, sbatch,
                   issued, dbLog>>

\* lines 604-608
SourceUse ==
    /\ spc = "use"
    /\ Exec(Session(UseStmt), "autocommit0")
    /\ UNCHANGED <<dumpVars, pureVars, sopt, input, reader, rdEnd, nread, sfirst, sdml, sbatch>>

\* lines 614-618
SourceAutocommitOff ==
    /\ spc = "autocommit0"
    /\ Exec(Session(AutocommitOffStmt), "read")
    /\ UNCHANGED <<dumpVars, pureVars, sopt, input, reader, rdEnd, nread, sfirst, sdml, sbatch>>

\* lines 620-670: read the next statement, trim it, and with a merge size above 1
\* and the INSERT INTO prefix read on and merge
SourceRead ==
    /\ spc = "read"
    /\ LET rd == ReadString(reader, rdEnd)
           d == trim(rd.line)
       IN  IF rd.err = "EOF"
           THEN /\ spc' = "commit"
                /\ reader' = rd.rest
                /\ UNCHANGED <<nread, sfirst, sdml, sbatch, sret>>
           ELSE IF rd.err # "nil"
           THEN /\ spc' = "done"
                /\ sret' = [kind |-> rd.err, at |-> 0]
                /\ reader' = rd.rest
                /\ UNCHANGED <<nread, sfirst, sdml, sbatch>>
           ELSE IF sopt.mergeInsert > 1 /\ HasPrefix(d, InsertIntoPrefix)
           THEN LET b == ReadBatch(rd.rest, rdEnd, <<d>>, 0, sopt.mergeInsert)
                    m == mergeInsert(b.insertSQLs)
                IN  /\ reader' = b.rest
                    /\ nread' = nread + 1 + b.reads
                    /\ sfirst' = nread + 1
                    /\ sbatch' = b.insertSQLs
                    /\ IF b.err # "nil"
                       THEN /\ spc' = "done"
                            /\ sret' = [kind |-> b.err, at |-> 0]
                            /\ UNCHANGED sdml
                       ELSE IF m.err # "nil"
                       THEN /\ spc' = "done"
                            /\ sret' = [kind |-> m.err, at |-> 0]
                            /\ UNCHANGED sdml
                       ELSE /\ spc' = "execMerged"
                            /\ sdml' = m.out
                            /\ UNCHANGED sret
           ELSE /\ spc' = "exec"
                /\ reader' = rd.rest
                /\ nread' = nread + 1
                /\ sfirst' = nread + 1
                /\ sdml' = d
                /\ sbatch' = <<d>>
                /\ UNCHANGED sret
    /\ UNCHANGED <<dumpVars, pureVars, sopt, input, rdEnd, issued, dbLog>>

\* lines 672-676
SourceExec ==
    /\ spc \in {"exec", "execMerged"}
    /\ Exec(Call("stream", sdml, TRUE, sbatch, sfirst, spc = "execMerged"), "read")
    /\ UNCHANGED <<dumpVars, pureVars, sopt, input, reader, rdEnd, nread, sfirst, sdml, sbatch>>

\* lines 679-683
SourceCommit ==
    /\ spc = "commit"
    /\ Exec(Session(CommitStmt), "autocommit1")
    /\ UNCHANGED <<dumpVars, pureVars, sopt, input, reader, rdEnd, nread, sfirst, sdml, sbatch>>

\* lines 685-689
SourceAutocommitOn ==
    /\ spc = "autocommit1"
    /\ Exec(Session(AutocommitOnStmt), "return")
    /\ UNCHANGED <<dumpVars, pureVars, sopt, input, reader, rdEnd, nread, sfirst, sdml, sbatch>>

\* line 691: return nil
SourceReturnNil ==
    /\ spc = "return"
    /\ spc' = "done"
    /\ sret' = ReturnedNil
    /\ UNCHANGED <<dumpVars, pureVars, sopt, input, reader, rdEnd, nread, sfirst, sdml, sbatch,
                   issued, dbLog>>

NextSource ==
    \/ SourceOpen
    \/ SourceOpenFail
    \/ SourceUse
    \/ SourceAutocommitOff
    \/ SourceRead
    \/ SourceExec
    \/ SourceCommit
    \/ SourceAutocommitOn
    \/ SourceReturnNil

SpecSource == InitSource /\ [][NextSource]_vars

(***************************************************************************)
(* mergeInsert called on its own                                           *)
(***************************************************************************)
TableT ==
    <<"t">>

TableValues ==
    <<"V", "A", "L", "U", "E", "S">>

Tuple1 ==
    <<"(", "1", ",", "'", "x", "'", ")">>

Tuple2 ==
    <<"(", "2", ",", "'", "y", "'", ")">>

Tuple3 ==
    <<"(", "3", ")">>

\* a row of a table, or (form "set") a statement that has no VALUES keyword
RowPool ==
    {[table |-> TableT, tuple |-> Tuple1, form |-> "values"],
     [table |-> TableT, tuple |-> Tuple2, form |-> "values"],
     [table |-> TableValues, tuple |-> Tuple3, form |-> "values"],
     [table |-> TableT, tuple |-> Tuple3, form |-> "set"]}

\* the statement writeTableData builds for a row, lines 391-482, once Source has
\* trimmed it; form "set" is an INSERT ... SET statement written by hand
StmtOf(rec) ==
    InsertIntoPrefix \o <<" ", BQ>> \o rec.table \o <<BQ, " ">>
      \o (IF rec.form = "values" THEN ValuesKeyword \o <<" ">> \o rec.tuple
          ELSE <<"S", "E", "T", " ", "a", "=">> \o rec.tuple)
      \o Semicolon

InitMerge ==
    /\ DumpIdle
    /\ SourceIdle
    /\ RowIdle
    /\ WriterIdle
    /\ mpc = "call"
    /\ mrows \in SeqsUpTo(RowPool, MaxInputs)
    /\ minput = [i \in 1..Len(mrows) |-> StmtOf(mrows[i])]
    /\ mout = [out |-> <<>>, err |-> "none"]

MergeInsertCall ==
    /\ mpc = "call"
    /\ mout' = mergeInsert(minput)
    /\ mpc' = "done"
    /\ UNCHANGED <<dumpVars, srcVars, rowVars, swVars, mrows, minput>>

NextMerge == MergeInsertCall

SpecMerge == InitMerge /\ [][NextMerge]_vars

(***************************************************************************)
(* One row of writeTableData: the loop body, lines 380-483                 *)
(***************************************************************************)
MaxCols == 2        \* columns of the table the row is of

Digits == <<"0", "1", "2", "3", "4", "5", "6", "7", "8", "9">>

\* fmt.Sprintf("%d", n)
RECURSIVE Itoa(_)
Itoa(n) ==
    IF n < 0 THEN <<"-">> \o Itoa(0 - n)
    ELSE IF n < 10 THEN <<Digits[n + 1]>>
    ELSE Itoa(n \div 10) \o <<Digits[(n % 10) + 1]>>

\* strings.Replace(s, old, new, -1), old not empty
RECURSIVE Replace(_, _, _)
Replace(s, old, new) ==
    LET i == Index(s, old)
    IN  IF i = -1 THEN s
        ELSE Take(s, i) \o new \o Replace(Drop(s, i + Len(old)), old, new)

\* lines 400-401: UNSIGNED and spaces are taken out of the type name
Unsigned ==
    <<"U", "N", "S", "I", "G", "N", "E", "D">>

CanonicalType(Type) == Replace(Replace(Type, Unsigned, <<>>), <<" ">>, <<>>)

\* line 403
IntegerFamily ==
    {<<"T", "I", "N", "Y", "I", "N", "T">>,
     <<"S", "M", "A", "L", "L", "I", "N", "T">>,
     <<"M", "E", "D", "I", "U", "M", "I", "N", "T">>,
     <<"I", "N", "T">>,
     <<"I", "N", "T", "E", "G", "E", "R">>,
     <<"B", "I", "G", "I", "N", "T">>}

\* line 457
TextFamily ==
    {<<"C", "H", "A", "R">>,
     <<"V", "A", "R", "C", "H", "A", "R">>,
     <<"T", "I", "N", "Y", "T", "E", "X", "T">>,
     <<"T", "E", "X", "T">>,
     <<"M", "E", "D", "I", "U", "M", "T", "E", "X", "T">>,
     <<"L", "O", "N", "G", "T", "E", "X", "T">>}

\* line 422
TypeDate ==
    <<"D", "A", "T", "E">>

\* line 405
PrimaryID ==
    <<"i", "d">>

\* line 395
NullLiteral ==
    <<"N", "U", "L", "L">>

\* line 474
UnsupportedPrefix ==
    <<"u", "n", "s", "u", "p", "p", "o", "r", "t", "e", "d", " ", "t", "y", "p", "e", ":",
      " ">>

\* t.Format("2006-01-02"), line 428
Pad(n, width) ==
    LET d == Itoa(n)
    IN  [i \in 1..(width - Len(d)) |-> "0"] \o d

FormatDate(t) == Pad(t.y, 4) \o <<"-">> \o Pad(t.m, 2) \o <<"-">> \o Pad(t.d, 2)

\* what the switch of lines 402-475 does with a value that is not nil: text to
\* append to dml, or a return.  col.val is the value as Scan delivered it: form
\* "bytes" ([]byte, field text), "int64" (field n) or "time" (time.Time, fields
\* y, m, d).  The cases FLOAT to JSON other than the ones below are left out, and no
\* column of the rows drawn is of these types.
ZeroesID(wpid, col) == wpid /\ col.name = PrimaryID /\ col.val.form = "bytes"

Literal(col, wpid) ==
    LET Type == CanonicalType(col.type)
    IN  IF Type \in IntegerFamily
        THEN IF ZeroesID(wpid, col) THEN [left |-> "on", text |-> <<"0">>]
             ELSE IF col.val.form = "bytes" THEN [left |-> "on", text |-> col.val.text]
             ELSE [left |-> "on", text |-> Itoa(col.val.n)]
        ELSE IF Type = TypeDate
        THEN IF col.val.form = "time"
             THEN [left |-> "on", text |-> <<"'">> \o FormatDate(col.val) \o <<"'">>]
             ELSE [left |-> "nil", text |-> <<>>]
        ELSE IF Type \in TextFamily
        THEN [left |-> "on",
              text |-> <<"'">> \o Replace(col.val.text, <<"'">>, <<"'", "'">>) \o <<"'">>]
        ELSE [left |-> "error", text |-> UnsupportedPrefix \o Type]

\* lines 391-483 from column i on: the statement is sent on writeCh (left "sent"),
\* or the function returns err, which is nil (left "nil") or the error of line 474
RECURSIVE BuildFrom(_, _, _, _)
BuildFrom(cols, i, wpid, acc) ==
    IF i > Len(cols)
    THEN [dml |-> acc \o <<")", ";", "\n">>, left |-> "sent", err |-> <<>>]
    ELSE LET col == cols[i]
             lit == IF col.val.form = "nil" THEN [left |-> "on", text |-> NullLiteral]
                    ELSE Literal(col, wpid)
             sep == IF i < Len(cols) THEN Comma ELSE <<>>
         IN  IF lit.left = "on" THEN BuildFrom(cols, i + 1, wpid, acc \o lit.text \o sep)
             ELSE IF lit.left = "nil" THEN [dml |-> <<>>, left |-> "nil", err |-> <<>>]
             ELSE [dml |-> <<>>, left |-> "error", err |-> lit.text]

BuildDml(table, cols, wpid) ==
    BuildFrom(cols, 1, wpid, InsertIntoPrefix \o <<" ", BQ>> \o table \o <<BQ, " ">>
                                 \o ValuesKeyword \o <<" ", "(">>)

\* the types and names of the columns drawn
TypeInt ==
    <<"I", "N", "T">>

TypeUnsignedBigint ==
    <<"U", "N", "S", "I", "G", "N", "E", "D", " ", "B", "I", "G", "I", "N", "T">>

TypeVarchar ==
    <<"V", "A", "R", "C", "H", "A", "R">>

TypeGeometry ==
    <<"G", "E", "O", "M", "E", "T", "R", "Y">>

NameID2 ==
    <<"i", "d", "2">>

NameD ==
    <<"d">>

NameG ==
    <<"g">>

NameS ==
    <<"s">>

Col(name, type, val) == [name |-> name, type |-> type, val |-> val]
Bytes(text) == [form |-> "bytes", text |-> text]
Int64(n) == [form |-> "int64", n |-> n]
Time(y, m, d) == [form |-> "time", y |-> y, m |-> m, d |-> d]
Nil == [form |-> "nil"]

ColPool ==
    {Col(PrimaryID, TypeInt, Bytes(<<"5">>)),
     Col(PrimaryID, TypeInt, Int64(5)),
     Col(PrimaryID, TypeInt, Nil),
     Col(NameID2, TypeUnsignedBigint, Bytes(<<"5">>)),
     Col(NameID2, TypeUnsignedBigint, Int64(5)),
     Col(NameID2, TypeInt, Int64(0 - 12)),
     Col(NameD, TypeDate, Time(2024, 1, 2)),
     Col(NameD, TypeDate, Bytes(<<"2", "0", "2", "4", "-", "0", "1", "-", "0", "2">>)),
     Col(NameG, TypeGeometry, Bytes(<<"p">>)),
     Col(NameG, TypeGeometry, Nil),
     Col(NameS, TypeVarchar, Bytes(<<"a", "'", "b">>))}

InitRow ==
    /\ DumpIdle
    /\ SourceIdle
    /\ MergeIdle
    /\ WriterIdle
    /\ rpc = "build"
    /\ withoutPrimaryID \in BOOLEAN
    /\ row \in SeqsUpTo(ColPool, MaxCols) \ {<<>>}
    /\ rout = NoRowOut

\* one pass of the loop body after a Scan that succeeded
BuildRow ==
    /\ rpc = "build"
    /\ rout' = BuildDml(TableT, row, withoutPrimaryID)
    /\ rpc' = "done"
    /\ UNCHANGED <<dumpVars, srcVars, mergeVars, swVars, withoutPrimaryID, row>>

NextRow == BuildRow

SpecRow == InitRow /\ [][NextRow]_vars

(***************************************************************************)
(* SafeWriter used by one thread                                           *)
(***************************************************************************)
MaxBuf == 2         \* the largest size given to NewSafeWriterWithSize
MaxTexts == 2       \* calls of WriteString
MaxTextLen == 2     \* bytes of a text

Texts == SeqsUpTo({"a", "b"}, MaxTextLen)

InitWriter ==
    /\ DumpIdle
    /\ SourceIdle
    /\ MergeIdle
    /\ RowIdle
    /\ wpc = "write"
    /\ wtexts \in SeqsUpTo(Texts, MaxTexts)
    /\ wn = 0
    /\ \E size \in 1..MaxBuf : sw = NewSafeWriterWithSize(size)

\* w.WriteString(s) with the next text
WriterWriteString ==
    /\ wpc = "write"
    /\ wn < Len(wtexts)
    /\ sw' = WriteString(sw, wtexts[wn + 1])
    /\ wn' = wn + 1
    /\ UNCHANGED <<dumpVars, srcVars, mergeVars, rowVars, wpc, wtexts>>

\* w.Flush() after the last text
WriterFlush ==
    /\ wpc = "write"
    /\ wn = Len(wtexts)
    /\ sw' = Flush(sw)
    /\ wpc' = "done"
    /\ UNCHANGED <<dumpVars, srcVars, mergeVars, rowVars, wtexts, wn>>

NextWriter ==
    \/ WriterWriteString
    \/ WriterFlush

SpecWriter == InitWriter /\ [][NextWriter]_vars

(***************************************************************************)
(* Properties                                                              *)
(***************************************************************************)
\* C1: when the consumer of a table has taken the stop signal (it is in its
\* terminal flush or has returned), every statement sent on writeCh has been
\* passed to WriteString, and none is left in the channel.
C1_SentWrittenBeforeFlush ==
    \A t \in Tables :
        cpc[t] \in {"flush", "exit"} => written[t] = sentLog[t] /\ writeCh[t] = <<>>

\* C2: the thread running Dump and writeTableData is never inside a call of the
\* SafeWriter (WriteString or Flush) while a consumer is inside one.
C2_SingleWriter == ~(Inside(Orch) /\ \E t \in Tables : Inside(t))

\* C3: once writeTableData has returned nil, its stop signal has been received (it
\* is no longer in the done channel) and the consumer writes no more row data.
C3_FinishObserved ==
    \A t \in Tables :
        wtd[t] = "nil" => doneCh[t] = 0 /\ cpc[t] # "write" /\ writeCh[t] = <<>>

\* the text the SafeWriter was given, in the order it took it
SinkText == sink.dest \o sink.buf

\* the INSERT statements of table t in the text of the sink
InsertsOf(t) ==
    LET IsInsertOfT(x) == x.k = "INSERT" /\ x.t = t
    IN  SelectSeq(SinkText, IsInsertOfT)

\* C4: the statements the consumer of a table has passed to WriteString are, in
\* order, the statements of the rows fetched first (the i-th one written is the
\* statement of the i-th row fetched), and as long as no two threads were inside
\* the SafeWriter together the sink holds exactly these, in this order.
C4_FetchOrder ==
    \A t \in Tables :
        /\ Len(written[t]) <= fetched[t]
        /\ \A i \in 1..Len(written[t]) : written[t][i] = Tok("INSERT", t, i)
        /\ ~torn => InsertsOf(t) = written[t]

\* C4 witness: two rows of a table were fetched and both statements are in the
\* sink, no call of the SafeWriter having overlapped another
C4_TwoRowsWritten ==
    \E t \in Tables : fetched[t] >= 2 /\ Len(InsertsOf(t)) >= 2 /\ ~torn

StmtRank(k) == IF k = "DROP" THEN 1 ELSE IF k = "CREATE" THEN 2 ELSE 3

\* C5: in the text given to the sink, DROP TABLE, CREATE TABLE and the INSERTs of
\* one table come in this order, and no INSERT of a table comes after text of a
\* later table or after the footer.
C5_StatementOrder ==
    \A i, j \in 1..Len(SinkText) :
        LET a == SinkText[i]
            b == SinkText[j]
        IN  i < j =>
              /\ (a.t = b.t /\ a.t > 0 /\ {a.k, b.k} \subseteq {"DROP", "CREATE", "INSERT"})
                    => StmtRank(a.k) <= StmtRank(b.k)
              /\ b.k = "INSERT" => a.k # "FOOTER" /\ a.t <= b.t

\* the texts the properties expect, written out
TextUse ==
    <<"U", "S", "E", " ", "d", "b", ";">>

TextAutocommitOff ==
    <<"S", "E", "T", " ", "a", "u", "t", "o", "c", "o", "m", "m", "i", "t", "=", "0", ";">>

TextCommit ==
    <<"C", "O", "M", "M", "I", "T", ";">>

TextAutocommitOn ==
    <<"S", "E", "T", " ", "a", "u", "t", "o", "c", "o", "m", "m", "i", "t", "=", "1", ";">>

TextInsertInto ==
    <<"I", "N", "S", "E", "R", "T", " ", "I", "N", "T", "O">>

TextMergedNoSpace ==
    <<"I", "N", "S", "E", "R", "T", " ", "I", "N", "T", "O", " ", BQ, "t", BQ, " ", "V",
      "A", "L", "U", "E", "S", " ", "(", "1", ",", "'", "x", "'", ")", ",", "(", "2", ",",
      "'", "y", "'", ")", ";">>

TextMergedSpace ==
    <<"I", "N", "S", "E", "R", "T", " ", "I", "N", "T", "O", " ", BQ, "t", BQ, " ", "V",
      "A", "L", "U", "E", "S", " ", "(", "1", ",", "'", "x", "'", ")", ",", " ", "(", "2",
      ",", "'", "y", "'", ")", ";">>

IsSession(e, text) == e.origin = "session" /\ e.text = text

\* C6: when Source has returned nil, the calls of Exec are USE, SET autocommit=0,
\* then only statements of the stream, then COMMIT, then SET autocommit=1 as the
\* last one: each session statement once, no COMMIT between stream statements.
C6_OneTransaction ==
    sret = ReturnedNil =>
        LET n == Len(issued)
        IN  /\ n >= 4
            /\ IsSession(issued[1], TextUse)
            /\ IsSession(issued[2], TextAutocommitOff)
            /\ \A i \in 3..(n - 2) : issued[i].origin = "stream"
            /\ IsSession(issued[n - 1], TextCommit)
            /\ IsSession(issued[n], TextAutocommitOn)

\* C6 witness: a replay of two stream statements or more has returned nil
C6_ReplayCompleted ==
    /\ sret = ReturnedNil
    /\ ~sopt.dryRun
    /\ Len(dbLog) = Len(issued)
    /\ Cardinality({i \in 1..Len(issued) : issued[i].origin = "stream"}) >= 2

\* C7: a call of Exec that failed is the last call, Source has returned, and it
\* has returned the error of that call.
C7_FailureAborts ==
    \A i \in 1..Len(issued) :
        ~issued[i].ok =>
            /\ i = Len(issued)
            /\ spc = "done"
            /\ sret = [kind |-> "exec", at |-> i]

\* C7 witness: a statement of the stream failed after another one had succeeded
C7_StreamStatementFailed ==
    \E i \in 2..Len(issued) :
        /\ ~issued[i].ok
        /\ issued[i].origin = "stream"
        /\ issued[i - 1].origin = "stream"

\* the value tuple of a statement: from its last "(" to its last ")"
LastIndexOf(s, c) ==
    LET hits == {i \in 1..Len(s) : s[i] = c}
    IN  IF hits = {} THEN 0 ELSE CHOOSE i \in hits : \A j \in hits : j <= i

ValueTuple(stmt) ==
    LET open == LastIndexOf(stmt, "(")
        close == LastIndexOf(stmt, ")")
    IN  IF open = 0 \/ close < open THEN <<>> ELSE SubSeq(stmt, open, close)

\* the texts of parts occur in text one after the other, without overlap
RECURSIVE OccurInOrder(_, _)
OccurInOrder(text, parts) ==
    IF parts = <<>> THEN TRUE
    ELSE LET at == Index(text, Head(parts))
         IN  /\ at # -1
             /\ OccurInOrder(Drop(text, at + Len(Head(parts))), Tail(parts))

\* C8: with a merge size N above 1, a merged statement is made of 1 to N
\* statements that follow each other in the stream, each beginning with
\* INSERT INTO once trimmed, and holds their value tuples in stream order.
C8_MergedBatches ==
    \A k \in 1..Len(issued) :
        LET e == issued[k]
            m == e.members
        IN  (e.origin = "stream" /\ e.merged) =>
              /\ sopt.mergeInsert > 1
              /\ Len(m) >= 1
              /\ Len(m) <= sopt.mergeInsert
              /\ e.first >= 1
              /\ e.first + Len(m) - 1 <= Len(input)
              /\ \A j \in 1..Len(m) :
                    /\ m[j] = TrimSpace(input[e.first + j - 1])
                    /\ HasPrefix(m[j], TextInsertInto)
              /\ OccurInOrder(e.text, [j \in 1..Len(m) |-> ValueTuple(m[j])])

\* C8 witness: a batch of N statements was merged and executed while the stream
\* held more than N statements
C8_FullBatchMerged ==
    \E k \in 1..Len(issued) :
        /\ issued[k].merged
        /\ Len(issued[k].members) = sopt.mergeInsert
        /\ Len(input) > sopt.mergeInsert

RECURSIVE JoinTuples(_, _)
JoinTuples(rows, sep) ==
    IF Len(rows) = 1 THEN rows[1].tuple
    ELSE rows[1].tuple \o sep \o JoinTuples(Tail(rows), sep)

\* C9: for a non-empty input of single-row INSERT ... VALUES statements of one
\* table, mergeInsert returns no error and the head of the first statement,
\* INSERT INTO table VALUES, followed by the tuples of all inputs in input
\* order, with a separator between them and a final semicolon.
C9_SameTableMerge ==
    (/\ mpc = "done"
     /\ mrows # <<>>
     /\ \A i \in 1..Len(mrows) :
            mrows[i].form = "values" /\ mrows[i].table = mrows[1].table)
    => /\ mout.err = "nil"
       /\ \E sep \in {<<",">>, <<",", " ">>} :
             mout.out = TextInsertInto \o <<" ", BQ>> \o mrows[1].table
                          \o <<BQ, " ", "V", "A", "L", "U", "E", "S", " ">>
                          \o JoinTuples(mrows, sep) \o <<";">>

\* the replay of the two statements Dump writes for the rows (1,x) and (2,y) of
\* table t, with merge size 2, has executed its one stream statement
TwoRowsMerged ==
    /\ input = <<StmtInsert1, StmtInsert2>>
    /\ sopt.mergeInsert = 2
    /\ Len(issued) >= 3
    /\ issued[3].origin = "stream"

\* C10, as claimed: the statement executed has no space between the tuples
C10_MergedNoSpace == TwoRowsMerged => issued[3].text = TextMergedNoSpace

\* C10, amended: the statement executed is the first statement without its
\* semicolon, a comma, and the text after VALUES of the second one, which begins
\* with the space that followed VALUES
C10_MergedWithSpace ==
    TwoRowsMerged =>
        /\ issued[3].merged
        /\ issued[3].members = <<TrimSpace(StmtInsert1), TrimSpace(StmtInsert2)>>
        /\ issued[3].text = TextMergedSpace

\* sub occurs somewhere in s
ContainsText(s, sub) ==
    \E i \in 0..(Len(s) - Len(sub)) : SubSeq(s, i + 1, i + Len(sub)) = sub

TextValues ==
    <<"V", "A", "L", "U", "E", "S">>

\* C11: when a statement of the input of mergeInsert, the first one or another,
\* does not contain the keyword VALUES, mergeInsert returns an error and no text.
C11_MissingValuesIsError ==
    (/\ mpc = "done"
     /\ \E i \in 1..Len(minput) : ~ContainsText(minput[i], TextValues))
    => /\ mout.err # "nil"
       /\ mout.out = <<>>

IsPrefix(s, t) == Len(s) <= Len(t) /\ SubSeq(t, 1, Len(s)) = s

\* how many of the statements of stmts from index from on, cap at most, begin with
\* INSERT INTO once trimmed, one after the other
RECURSIVE RunLen(_, _, _)
RunLen(stmts, from, cap) ==
    IF cap = 0 \/ from > Len(stmts) THEN 0
    ELSE IF HasPrefix(TrimSpace(stmts[from]), TextInsertInto)
         THEN 1 + RunLen(stmts, from + 1, cap - 1)
         ELSE 0

\* the statements a replay of the stream stmts with merge size n hands to Exec
\* between SET autocommit=0 and COMMIT, every call succeeding
RECURSIVE ExpectedStream(_, _)
ExpectedStream(stmts, n) ==
    IF stmts = <<>> THEN <<>>
    ELSE LET d == TrimSpace(Head(stmts))
         IN  IF n > 1 /\ HasPrefix(d, TextInsertInto)
             THEN LET k == RunLen(stmts, 2, n - 1)
                      batch == [j \in 1..(1 + k) |-> TrimSpace(stmts[j])]
                      skipped == IF k < n - 1 /\ Len(stmts) > 1 + k THEN 1 ELSE 0
                      m == mergeInsert(batch)
                  IN  IF m.err # "nil" THEN <<>>
                      ELSE <<m.out>> \o ExpectedStream(Drop(stmts, 1 + k + skipped), n)
             ELSE <<d>> \o ExpectedStream(Tail(stmts), n)

ExpectedCalls(stmts, n) ==
    <<TextUse, TextAutocommitOff>> \o ExpectedStream(stmts, n)
        \o <<TextCommit, TextAutocommitOn>>

TextsOf(calls) == [i \in 1..Len(calls) |-> calls[i].text]

\* C12: a dry run leaves the database as it was, and it hands to Exec the
\* statements a real run on the same input hands to it: in both kinds of run the
\* calls are a prefix of one sequence that depends on the stream and the merge size
\* only, and the whole of it when Source has returned nil.
C12_DryRunWalksTheSame ==
    /\ sopt.dryRun => dbLog = <<>> /\ \A i \in 1..Len(issued) : issued[i].ok
    /\ IsPrefix(TextsOf(issued), ExpectedCalls(input, sopt.mergeInsert))
    /\ sret = ReturnedNil => TextsOf(issued) = ExpectedCalls(input, sopt.mergeInsert)
    /\ (~sopt.dryRun /\ sret = ReturnedNil) => dbLog = TextsOf(issued)

\* C12 witness: a dry run of a stream in which statements were merged has
\* returned nil
C12_DryRunCompleted ==
    /\ sopt.dryRun
    /\ sret = ReturnedNil
    /\ Len(issued) >= 6
    /\ \E i \in 1..Len(issued) : issued[i].merged /\ Len(issued[i].members) >= 2

TextInsertZero ==
    <<"I", "N", "S", "E", "R", "T", " ", "I", "N", "T", "O", " ", BQ, "t", BQ, " ", "V",
      "A", "L", "U", "E", "S", " ", "(", "0", ")", ";", "\n">>

\* C13: with the option WithoutPrimaryID, a row of one INT column named id whose
\* value is not NULL is written with the literal 0, whether the value arrived as
\* byte text or as a native integer.
C13_IdRendersZero ==
    (/\ rpc = "done"
     /\ withoutPrimaryID
     /\ Len(row) = 1
     /\ row[1].name = <<"i", "d">>
     /\ row[1].type = <<"I", "N", "T">>
     /\ row[1].val.form \in {"bytes", "int64"})
    => /\ rout.left = "sent"
       /\ rout.dml = TextInsertZero

\* C14: when a column of the row holds a value that is not NULL and its type is
\* not supported (GEOMETRY), the loop body leaves with the error
\* "unsupported type: GEOMETRY" and no statement of the row is sent.
C14_UnsupportedTypeIsError ==
    (/\ rpc = "done"
     /\ \E i \in 1..Len(row) :
            /\ row[i].type = <<"G", "E", "O", "M", "E", "T", "R", "Y">>
            /\ row[i].val.form # "nil")
    => /\ rout.left = "error"
       /\ rout.err = <<"u", "n", "s", "u", "p", "p", "o", "r", "t", "e", "d", " ", "t",
                       "y", "p", "e", ":", " ", "G", "E", "O", "M", "E", "T", "R", "Y">>
       /\ rout.dml = <<>>

\* the buffer never holds more than its size, buffer and destination together
\* hold the texts written so far, in call order, each byte once, and after the
\* final Flush the destination holds all of them
WriterHoldsAllTexts ==
    /\ Len(sw.buf) <= sw.size
    /\ sw.dest \o sw.buf = Concat(SubSeq(wtexts, 1, wn))
    /\ wpc = "done" => sw.dest = Concat(wtexts) /\ sw.buf = <<>>

\* a call of WriteString with a text longer than the room left flushes what was
\* buffered before any byte of the text is buffered: the text, when it fits the
\* buffer at all, is then alone in the buffer
WriterFlushesFirst ==
    (/\ wn' = wn + 1
     /\ sw.size - Len(sw.buf) < Len(wtexts[wn + 1]))
    => /\ IsPrefix(sw.dest \o sw.buf, sw'.dest)
       /\ Len(wtexts[wn + 1]) <= sw.size =>
             sw'.buf = wtexts[wn + 1] /\ sw'.dest = sw.dest \o sw.buf

\* C15: for calls of WriteString by one thread followed by a Flush, the
\* destination receives exactly the texts written, in call order, each byte once;
\* the writer flushes before buffering when the room left is smaller than the
\* text; the buffer never holds more bytes than its size.
C15_SafeWriter == []WriterHoldsAllTexts /\ [][WriterFlushesFirst]_vars

\* C15 witness: all texts were written and flushed, and the writer had to flush
\* before the end because the texts together are larger than its buffer
C15_FlushedInBetween ==
    /\ wpc = "done"
    /\ Len(wtexts) >= 2
    /\ Len(sw.dest) > sw.size
    /\ \A i \in 1..Len(wtexts) : wtexts[i] # <<>>

IsStreamCall(e) == e.origin = "stream"

StreamCalls == SelectSeq(issued, IsStreamCall)

\* C16: with a merge size of 0 or 1, the statements of the stream handed to Exec
\* are the statements of the stream up to their semicolon, each trimmed of the
\* whitespace around it, each once and in stream order; they are the only calls
\* between SET autocommit=0 and COMMIT, and when Source has returned nil every
\* statement of the stream was handed over and the text after the last semicolon
\* was not.
C16_EveryStatementOnce ==
    sopt.mergeInsert <= 1 =>
        /\ Len(StreamCalls) <= Len(input)
        /\ \A i \in 1..Len(StreamCalls) :
              /\ StreamCalls[i].text = TrimSpace(input[i])
              /\ ~StreamCalls[i].merged
              /\ issued[i + 2] = StreamCalls[i]
        /\ sret = ReturnedNil =>
              /\ Len(StreamCalls) = Len(input)
              /\ Len(issued) = Len(input) + 4
              /\ ~sopt.dryRun => dbLog = TextsOf(issued)

\* C16 witness: a real replay without merging of three statements, one of them
\* after comment lines, has returned nil
C16_PlainReplayCompleted ==
    /\ sopt.mergeInsert <= 1
    /\ ~sopt.dryRun
    /\ sret = ReturnedNil
    /\ Len(input) >= 3
    /\ \E i \in 1..Len(input) : input[i] = StmtCommentInsert

\* the parenthesised value tuples of a text, in order
RECURSIVE TuplesIn(_)
TuplesIn(text) ==
    LET open == Index(text, <<"(">>)
        rest == Drop(text, open)
        close == Index(rest, <<")">>)
    IN  IF open = -1 \/ close = -1 THEN <<>>
        ELSE <<Take(rest, close + 1)>> \o TuplesIn(Drop(rest, close + 1))

\* the rows a statement inserts when the database executes it, each with its
\* table: comment lines before the statement are skipped, the table is the name
\* between the grave accents after INSERT INTO, the rows are the tuples after
\* VALUES (or, without VALUES, the one row of an INSERT ... SET)
RowsInserted(stmt) ==
    LET at == Index(stmt, TextInsertInto \o <<" ", BQ>>)
        afterHead == Drop(stmt, at + Len(TextInsertInto) + 2)
        nameEnd == Index(afterHead, <<BQ>>)
        table == Take(afterHead, nameEnd)
        body == Drop(afterHead, nameEnd + 1)
    IN  IF at = -1 \/ nameEnd = -1 THEN <<>>
        ELSE IF HasPrefix(body, <<" ">> \o TextValues)
        THEN [i \in 1..Len(TuplesIn(body)) |-> [table |-> table, tuple |-> TuplesIn(body)[i]]]
        ELSE <<[table |-> table, tuple |-> body]>>

RECURSIVE RowsOfAll(_)
RowsOfAll(stmts) ==
    IF stmts = <<>> THEN <<>> ELSE RowsInserted(Head(stmts)) \o RowsOfAll(Tail(stmts))

\* C17: a replay with a merge size above 1 that has returned nil has inserted the
\* rows that the replay of the same stream without merging inserts (the rows of
\* the statements of the stream, by C16), each into the same table, none lost and
\* none twice.
C17_MergeKeepsRows ==
    (sopt.mergeInsert > 1 /\ sret = ReturnedNil) =>
        RowsOfAll(TextsOf(StreamCalls)) = RowsOfAll(input)

\* C18: when writeTableData of a table has returned and a row it fetched was
\* not sent (Scan failed, the type of a column is not supported, or a DATE,
\* DATETIME, TIMESTAMP, TIME or YEAR value has another runtime type), it has
\* returned an error that is not nil, and Dump has returned this error.
C18_StoppedRowIsError ==
    \A t \in Tables :
        (wtd[t] \notin {"none", "running"} /\ Len(sentLog[t]) < fetched[t])
        => wtd[t] # "nil" /\ ret = wtd[t]

\* C19: under fair scheduling a consumer that was started (it is at its select,
\* or inside WriteString or Flush) returns in the end, after its terminal flush.
C19_ConsumerTerminates ==
    \A t \in Tables : (cpc[t] \in {"select", "write", "flush"}) ~> (cpc[t] = "exit")

====
